---- MODULE Spec2Model ----
(***************************************************************************)
(* Model of the waitlist form component App (src/src/App.tsx): the local   *)
(* React state (role, isSubmitted, error), the react-hook-form state the   *)
(* component reads (errors, isSubmitting), the two registered inputs, and  *)
(* the outbound axios.post calls made by onSubmit.                         *)
(*                                                                         *)
(* Strings the code computes with (role, labels, subject, field values)    *)
(* are sequences of one-character strings, so that concatenation,          *)
(* toUpperCase, the validation pattern and "contains" are computed.        *)
(***************************************************************************)
EXTENDS Integers, Sequences, FiniteSets, TLC

VARIABLES role, isSubmitted, error, name, email, errors, isSubmitting,
          formSubmitted, posts, console, uncaught

vars == <<role, isSubmitted, error, name, email, errors, isSubmitting,
          formSubmitted, posts, console, uncaught>>

(* ---------------------------- bounds ----------------------------------- *)

\* longest value typed into the email input
MaxEmailLen == 4
\* cap on the number of outbound calls one run of the model makes
MaxCalls == 2

(* ---------------------------- strings ---------------------------------- *)

Lower == <<"a", "b", "c", "d", "e", "f", "g", "h", "i", "j", "k", "l", "m",
           "n", "o", "p", "q", "r", "s", "t", "u", "v", "w", "x", "y", "z">>
Upper == <<"A", "B", "C", "D", "E", "F", "G", "H", "I", "J", "K", "L", "M",
           "N", "O", "P", "Q", "R", "S", "T", "U", "V", "W", "X", "Y", "Z">>

\* String.prototype.toUpperCase, character by character
ToUpperChar(c) ==
    IF \E i \in 1..Len(Lower) : Lower[i] = c
    THEN Upper[CHOOSE i \in 1..Len(Lower) : Lower[i] = c]
    ELSE c

toUpperCase(s) == [i \in 1..Len(s) |-> ToUpperChar(s[i])]

\* String.prototype.includes
Contains(s, sub) ==
    \E k \in 0..(Len(s) - Len(sub)) :
        \A j \in 1..Len(sub) : s[k + j] = sub[j]

\* all strings over an alphabet of length at most n
StringsUpTo(alphabet, n) == UNION {[1..k -> alphabet] : k \in 0..n}

(* ---------------------------- Role ------------------------------------- *)

company == <<"c", "o", "m", "p", "a", "n", "y">>
executive == <<"e", "x", "e", "c", "u", "t", "i", "v", "e">>

\* type Role = 'company' | 'executive'
Role == {company, executive}

CompanyLabel ==
    <<"C", "o", "m", "p", "a", "n", "y", " ", "(", "F", "i", "n", "d", " ",
      "a", "n", " ", "E", "x", "p", "e", "r", "t", ")">>
ExecutiveLabel ==
    <<"E", "x", "e", "c", "u", "t", "i", "v", "e", " ", "(", "J", "o", "i",
      "n", " ", "a", "s", " ", "E", "x", "p", "e", "r", "t", ")">>
SubjectPrefix ==
    <<"N", "e", "w", " ", "T", "a", "i", "l", "o", "r", "e", "d", "I", "Q",
      " ", "S", "i", "g", "n", "u", "p", ":", " ">>

\* role === 'company' ? 'Company (Find an Expert)' : 'Executive (Join as Expert)'
RoleLabelSwapped(r) == IF r = company THEN ExecutiveLabel ELSE CompanyLabel
RoleLabel(r) == IF r = company THEN CompanyLabel ELSE ExecutiveLabel

\* `New TailoredIQ Signup: ${role.toUpperCase()}`
SubjectNotUpper(r) == SubjectPrefix \o r
Subject(r) == SubjectPrefix \o toUpperCase(r)

(* ---------------------------- validation ------------------------------- *)

\* values given to the name input: empty or not
NameInputs == {<<>>, <<"a">>}
\* keys pressed in the email input
EmailChars == {"a", "@", " "}
EmailInputs == StringsUpTo(EmailChars, MaxEmailLen)

\* the regular expression class \S
NonSpace(c) == c # " "

\* /^\S+@\S+$/i : the whole value is \S+ then "@" then \S+
MatchesPatternNoExtraAt(s) ==
    \E i \in 2..(Len(s) - 1) :
        /\ s[i] = "@"
        /\ \A j \in 1..Len(s) : j # i => (NonSpace(s[j]) /\ s[j] # "@")
MatchesPattern(s) ==
    \E i \in 2..(Len(s) - 1) :
        /\ s[i] = "@"
        /\ \A j \in 1..(i - 1) : NonSpace(s[j])
        /\ \A j \in (i + 1)..Len(s) : NonSpace(s[j])

\* react-hook-form `required: true` on a text input: the value is not ''
Required(v) == v # <<>>

\* the rules registered for the two fields; the result is the set of fields
\* that get an entry in formState.errors
ValidateNameOptional(n, e) ==
    IF Required(e) /\ MatchesPattern(e) THEN {} ELSE {"email"}
Validate(n, e) ==
    (IF Required(n) THEN {} ELSE {"name"})
        \cup (IF Required(e) /\ MatchesPattern(e) THEN {} ELSE {"email"})

\* the inline messages rendered for errors.name and errors.email
ErrorSpan(field) ==
    IF field = "name" THEN "Name is required" ELSE "Valid email is required"

Indicators == {ErrorSpan(f) : f \in errors}

(* ---------------------------- onSubmit --------------------------------- *)

None == <<>>
Some(s) == <<s>>

Notice == "Note: Form submission simulated (Formspree ID missing). In production, this data would go to your email."

\* the object react-hook-form passes to onSubmit: the registered fields
FormValues(n, e) == [k \in {"name", "email"} |-> IF k = "name" THEN n ELSE e]

\* { ...data, role: <label>, _subject: <subject> }
\* later keys of the literal override the spread ones
Body(data, r) ==
    [k \in {"role", "_subject"} |->
        IF k = "role" THEN RoleLabel(r) ELSE Subject(r)] @@ data

\* the ways the awaited axios.post can reject
ErrKinds == {"network", "non2xx"}

\* The two ways onSubmit continues after its await.  cur is the component
\* state [error, isSubmitted] the continuation starts from; the result is
\* that state after the continuation, what it logged, and whether an
\* exception leaves onSubmit.

\* the call resolved: setIsSubmitted(true)
TryBranchWithNotice(cur) ==
    [error |-> Some(Notice), isSubmitted |-> TRUE, logged |-> <<>>,
     rethrown |-> FALSE]
TryBranch(cur) ==
    [error |-> cur.error, isSubmitted |-> TRUE, logged |-> <<>>,
     rethrown |-> FALSE]

\* catch (err) { console.error(err); setError(...); setIsSubmitted(true); }
CatchBranchRethrow(cur, err) ==
    [error |-> cur.error, isSubmitted |-> cur.isSubmitted, logged |-> <<err>>,
     rethrown |-> TRUE]
CatchBranchStayOnForm(cur, err) ==
    [error |-> Some(Notice), isSubmitted |-> cur.isSubmitted,
     logged |-> <<err>>, rethrown |-> FALSE]
CatchBranch(cur, err) ==
    [error |-> Some(Notice), isSubmitted |-> TRUE, logged |-> <<err>>,
     rethrown |-> FALSE]

(* ---------------------------- rendering -------------------------------- *)

\* {isSubmitted ? <success panel> : <role switcher and form>}
FormRendered == ~isSubmitted

\* the submit button carries disabled={isSubmitting}
CanSubmitIgnoringDisabled == FormRendered
CanSubmit == FormRendered /\ ~isSubmitting

Pending == {i \in 1..Len(posts) : posts[i].status = "pending"}
Failed == {i \in 1..Len(posts) : posts[i].status = "rejected"}

(* ---------------------------- state machine ---------------------------- *)

Init ==
    /\ role = executive
    /\ isSubmitted = FALSE
    /\ error = None
    /\ name = <<>>
    /\ email = <<>>
    /\ errors = {}
    /\ isSubmitting = FALSE
    /\ formSubmitted = FALSE
    /\ posts = <<>>
    /\ console = <<>>
    /\ uncaught = FALSE

\* onClick={() => setRole(value)} on the two role switcher buttons
SelectRoleRestart(v) ==
    /\ role' = v
    /\ isSubmitted' = FALSE
    /\ UNCHANGED <<error, name, email, errors, isSubmitting, formSubmitted,
                   posts, console, uncaught>>
SelectRoleAlways(v) ==
    /\ role' = v
    /\ UNCHANGED <<isSubmitted, error, name, email, errors, isSubmitting,
                   formSubmitted, posts, console, uncaught>>
SelectRole(v) ==
    /\ FormRendered
    /\ role' = v
    /\ UNCHANGED <<isSubmitted, error, name, email, errors, isSubmitting,
                   formSubmitted, posts, console, uncaught>>

\* the user edits the name input; after a first submit react-hook-form
\* re-validates the edited field on change
TypeName(v) ==
    /\ FormRendered
    /\ name' = v
    /\ errors' = IF formSubmitted
                 THEN (errors \ {"name"}) \cup (Validate(v, email) \cap {"name"})
                 ELSE errors
    /\ UNCHANGED <<role, isSubmitted, error, email, isSubmitting,
                   formSubmitted, posts, console, uncaught>>

\* the field's onChange with the new value of the email input
ChangeEmail(v) ==
    /\ FormRendered
    /\ email' = v
    /\ errors' = IF formSubmitted
                 THEN (errors \ {"email"}) \cup (Validate(name, v) \cap {"email"})
                 ELSE errors
    /\ UNCHANGED <<role, isSubmitted, error, name, isSubmitting,
                   formSubmitted, posts, console, uncaught>>

\* the user presses a key in the email input
TypeEmail(c) ==
    /\ Len(email) < MaxEmailLen
    /\ ChangeEmail(Append(email, c))

\* the user deletes the last character of the email input
EraseEmail ==
    /\ email # <<>>
    /\ ChangeEmail(SubSeq(email, 1, Len(email) - 1))

\* handleSubmit(onSubmit) with a failing field: onSubmit is not called
SubmitInvalid ==
    /\ CanSubmit
    /\ Validate(name, email) # {}
    /\ errors' = Validate(name, email)
    /\ formSubmitted' = TRUE
    /\ isSubmitting' = FALSE
    /\ UNCHANGED <<role, isSubmitted, error, name, email, posts, console,
                   uncaught>>

\* handleSubmit(onSubmit) with valid fields: onSubmit runs up to its await,
\* i.e. setError(null) and the axios.post with the body built from the
\* role of this render
SubmitValid ==
    /\ CanSubmit
    /\ Len(posts) < MaxCalls
    /\ Validate(name, email) = {}
    /\ errors' = {}
    /\ isSubmitting' = TRUE
    /\ error' = None
    /\ posts' = Append(posts, [body |-> Body(FormValues(name, email), role),
                               status |-> "pending"])
    /\ UNCHANGED <<role, isSubmitted, name, email, formSubmitted, console,
                   uncaught>>

Submit == SubmitInvalid \/ SubmitValid

\* The rest of onSubmit once its call has settled, with outcome r, then the
\* end of handleSubmit.  When the success panel replaces the form the two
\* inputs are unmounted and their values are gone.
Settle(i, status, r) ==
    /\ posts' = [posts EXCEPT ![i].status = status]
    /\ error' = r.error
    /\ isSubmitted' = r.isSubmitted
    /\ console' = console \o r.logged
    /\ uncaught' = (uncaught \/ r.rethrown)
    /\ isSubmitting' = FALSE
    /\ formSubmitted' = TRUE
    /\ name' = IF r.isSubmitted THEN <<>> ELSE name
    /\ email' = IF r.isSubmitted THEN <<>> ELSE email
    /\ UNCHANGED <<role, errors>>

Current == [error |-> error, isSubmitted |-> isSubmitted]

\* the outbound call resolves
PostResolves(i) ==
    /\ i \in Pending
    /\ Settle(i, "resolved", TryBranch(Current))

\* the outbound call rejects
PostRejects(i, err) ==
    /\ i \in Pending
    /\ Settle(i, "rejected", CatchBranch(Current, err))

Next ==
    \/ \E v \in Role : SelectRole(v)
    \/ \E v \in NameInputs : TypeName(v)
    \/ \E c \in EmailChars : TypeEmail(c)
    \/ EraseEmail
    \/ Submit
    \/ \E i \in 1..MaxCalls : PostResolves(i)
    \/ \E i \in 1..MaxCalls, err \in ErrKinds : PostRejects(i, err)

Spec == Init /\ [][Next]_vars

\* an outstanding call settles (the transport resolves or rejects it)
FairSpec ==
    Spec /\ WF_vars(\E i \in 1..MaxCalls :
                        PostResolves(i) \/ \E err \in ErrKinds : PostRejects(i, err))

TypeOK ==
    /\ role \in Role
    /\ isSubmitted \in BOOLEAN
    /\ error \in {None, Some(Notice)}
    /\ name \in NameInputs
    /\ email \in EmailInputs
    /\ errors \subseteq {"name", "email"}
    /\ isSubmitting \in BOOLEAN
    /\ formSubmitted \in BOOLEAN
    /\ Len(posts) <= MaxCalls
    /\ uncaught \in BOOLEAN

(* ---------------------------- properties ------------------------------- *)

\* the value as a whole has the shape \S+@\S+: no white space anywhere and
\* an "@" that is neither its first nor its last character
WellFormed(s) ==
    /\ \A j \in 1..Len(s) : s[j] # " "
    /\ \E i \in 2..(Len(s) - 1) : s[i] = "@"

\* the pattern \S+@\S+ without anchors: some part of the value has the shape
MatchesUnanchored(s) ==
    \E a \in 1..Len(s) : \E b \in a..Len(s) : WellFormed(SubSeq(s, a, b))

\* this step issued an outbound call, i.e. onSubmit was invoked
Sent == Len(posts') = Len(posts) + 1
SentBody == posts'[Len(posts')].body

FindAnExpert ==
    <<"F", "i", "n", "d", " ", "a", "n", " ", "E", "x", "p", "e", "r", "t">>
JoinAsExpert ==
    <<"J", "o", "i", "n", " ", "a", "s", " ", "E", "x", "p", "e", "r", "t">>
NewSignup == <<"N", "e", "w", " ", "s", "i", "g", "n", "u", "p", ":", " ">>
SubjectCOMPANY ==
    <<"N", "e", "w", " ", "T", "a", "i", "l", "o", "r", "e", "d", "I", "Q",
      " ", "S", "i", "g", "n", "u", "p", ":", " ",
      "C", "O", "M", "P", "A", "N", "Y">>
SubjectEXECUTIVE ==
    <<"N", "e", "w", " ", "T", "a", "i", "l", "o", "r", "e", "d", "I", "Q",
      " ", "S", "i", "g", "n", "u", "p", ":", " ",
      "E", "X", "E", "C", "U", "T", "I", "V", "E">>

C2_FailureStillSubmitted ==
    Failed # {} =>
        /\ isSubmitted
        /\ error # None
        /\ error[1] # ""
        /\ ~uncaught

C2_Witness ==
    /\ Failed # {}
    /\ isSubmitted
    /\ console = <<"non2xx">>

C4_SubmittedTerminal == [][isSubmitted => isSubmitted']_vars

C4_Witness ==
    /\ isSubmitted
    /\ Failed = {}
    /\ Len(posts) = 1

\* C5: at most one outbound call is outstanding, and while one is
\* outstanding isSubmitting is true and submit cannot be triggered.
C5_NoConcurrentSubmissions ==
    /\ Cardinality(Pending) <= 1
    /\ Pending # {} => (isSubmitting /\ ~CanSubmit)

\* a call is outstanding while the fields again hold valid values
C5_Witness ==
    /\ Cardinality(Pending) = 1
    /\ FormRendered
    /\ Validate(name, email) = {}

\* C6: the role label of a payload is the one of the role selected at the
\* submit: it contains "Find an Expert" for company and "Join as Expert"
\* for executive; name and email are the values of the fields.
C6_RoleLabelInPayload ==
    [][Sent =>
        /\ role = company =>
              (/\ Contains(SentBody["role"], FindAnExpert)
               /\ ~Contains(SentBody["role"], JoinAsExpert))
        /\ role = executive =>
              (/\ Contains(SentBody["role"], JoinAsExpert)
               /\ ~Contains(SentBody["role"], FindAnExpert))
        /\ SentBody["name"] = name
        /\ SentBody["email"] = email]_vars

C6_Witness ==
    /\ Len(posts) = 1
    /\ Contains(posts[1].body["role"], FindAnExpert)
    /\ posts[1].body["name"] = <<"a">>
    /\ posts[1].body["email"] = <<"a", "@", "a">>

\* C7 as stated: the body has the keys name, email, role, subject and the
\* subject is "New signup: " followed by the role upper-cased.
C7_Original ==
    [][Sent =>
        /\ DOMAIN SentBody = {"name", "email", "role", "subject"}
        /\ SentBody["subject"] = NewSignup \o toUpperCase(role)]_vars

\* C7 amended: the body has exactly the keys name, email, role, _subject;
\* role is the label of the selected role and _subject is
\* "New TailoredIQ Signup: " followed by COMPANY or EXECUTIVE.
C7_RequestBody ==
    [][Sent =>
        /\ DOMAIN SentBody = {"name", "email", "role", "_subject"}
        /\ SentBody["name"] = name
        /\ SentBody["email"] = email
        /\ SentBody["role"] =
              (IF role = company THEN CompanyLabel ELSE ExecutiveLabel)
        /\ SentBody["_subject"] =
              (IF role = company THEN SubjectCOMPANY ELSE SubjectEXECUTIVE)]_vars

C7_Witness ==
    /\ Len(posts) = 1
    /\ posts[1].body["_subject"] = SubjectCOMPANY

\* C8: the notice is set only if an outbound call has failed, and a call
\* that succeeded leaves the component Submitted with no notice.
C8_NoticeOnlyOnFailure ==
    /\ error # None => Failed # {}
    /\ \A i \in 1..Len(posts) :
          posts[i].status = "resolved" => (isSubmitted /\ error = None)

C8_Witness ==
    /\ isSubmitted
    /\ Len(posts) = 1
    /\ posts[1].status = "resolved"
    /\ error = None
    /\ role = executive

\* C9: after an outbound call has failed no further call is made, and no
\* step makes more than one call.
C9_NoRetry ==
    [][/\ Failed # {} => Len(posts') = Len(posts)
       /\ Len(posts') \in {Len(posts), Len(posts) + 1}]_vars

C9_Witness ==
    /\ Failed # {}
    /\ console = <<"network">>
    /\ Len(posts) = 1

\* C10: a step that changes role changes neither isSubmitted, the notice
\* nor the calls made so far (their number, payloads and status), and
\* happens only in Form; so role is fixed once Submitted.
C10_SelectRoleFrame ==
    [][role' # role =>
        /\ ~isSubmitted
        /\ isSubmitted' = isSubmitted
        /\ error' = error
        /\ posts' = posts]_vars

\* the role was changed while a call was outstanding
C10_Witness ==
    /\ Pending = {1}
    /\ posts[1].body["role"] = ExecutiveLabel
    /\ role = company
====
